---- MODULE Spec2Model ----
(***************************************************************************)
(* Model of the structural-geometry core of the docking pipeline:          *)
(*   make_vina_box_from_residues.py  (residue list parsing, residue        *)
(*       selection, padded bounding box, config emission)                  *)
(*   run_pipeline.py                 (run_cmd, steps 1-7 of main, reading  *)
(*       the box center, recentering the ligand files)                     *)
(*   run_vina_batch.py               (input validation, the sorted ligand  *)
(*       list, the docking loop and its count of completed ligands)        *)
(*                                                                         *)
(* Text is modelled as a sequence of one-character strings, so that the    *)
(* fixed-column slicing, str.strip, str.split, int(), float() and the      *)
(* "%8.3f" formatting are computed as the code computes them.              *)
(* Numbers are exact: a coordinate is an integer count of thousandths      *)
(* (0.001), a derived float is a fraction num/den of thousandths.  IEEE    *)
(* rounding error of the binary64 arithmetic is not modelled; a tie of     *)
(* the 3-decimal formatting is rounded half to even.                       *)
(***************************************************************************)
EXTENDS Integers, Sequences, FiniteSets, TLC

VARIABLES
    \* ---- make_vina_box_from_residues.py (one invocation) ----
    bpc,              \* position in main: idle / check / parse / coords / box / write / done
    receptor_path,    \* args.receptor, the path text
    receptor_exists,  \* os.path.exists(args.receptor)
    receptor,         \* the receptor file: a sequence of lines
    reslist,          \* args.residues, the text
    padding,          \* args.padding, thousandths
    residues,         \* the list returned by parse_residue_list
    li,               \* lines of the receptor consumed by get_residue_coords
    xs, ys, zs,       \* the three lists of get_residue_coords
    box,              \* <<>> or <<[cx, cy, cz, sx, sy, sz]>> of main
    config,           \* the file args.out: [exists, lines]
    config_opened,    \* open(args.out, "w") was executed
    bexit,            \* <<>> while running, <<status>> once the script ended
    bmsg,             \* what the script wrote on exit: <<>> or <<kind, text>>
    \* ---- run_pipeline.py ----
    ppc,              \* position in main
    pexit,            \* <<>> while running, <<status>> once the pipeline ended
    files,            \* pdbqt_dir: file name -> sequence of lines
    todo,             \* entries of os.listdir(pdbqt_dir) not yet iterated
    written,          \* ligand files rewritten by step 4
    center,           \* center_x, center_y, center_z of step 4: each <<>> (None) or <<v>>
    launched,         \* helper commands that were started by run_cmd
    output,           \* what the pipeline printed: a set of <<tag, subject>>
    converted,        \* the files the convert helper of step 2 leaves in pdbqt_dir
    helpers_in_cwd,   \* the run directory holds a run_vina_batch.py of its own
    \* ---- run_vina_batch.py (one invocation) ----
    vpc,                \* position in main: idle / check / loop / done
    ligands_dir_exists, \* os.path.isdir(args.ligands_dir)
    ligands,            \* the sorted list of ligand file names
    vi,                 \* iterations of the docking loop that were completed
    completed,          \* the counter of main
    vina_calls,         \* the vina commands that were run: <<[lig, out, rc], ...>>
    vexit,              \* <<>> while running, <<status>> once the script ended
    vmsg                \* what the script printed last: <<>> or <<kind, ...>>

boxVars == <<bpc, receptor_path, receptor_exists, receptor, reslist, padding, residues,
             li, xs, ys, zs, box, config, config_opened, bexit, bmsg>>
pipeVars == <<ppc, pexit, files, todo, written, center, launched, output, converted,
              helpers_in_cwd>>
vinaVars == <<vpc, ligands_dir_exists, ligands, vi, completed, vina_calls, vexit, vmsg>>
vars == <<boxVars, pipeVars, vinaVars>>

-----------------------------------------------------------------------------
(* Bounds of the model *)

MaxRecLines == 2     \* lines of a receptor file
MaxResLen == 4       \* characters of a residue list argument (SpecParse)
MaxLigLines == 2     \* lines of a ligand file (SpecRecenter)
MaxEntries == 4      \* entries of a ligands directory (SpecVina)

-----------------------------------------------------------------------------
(* Python text primitives *)

DigitSeq == <<"0", "1", "2", "3", "4", "5", "6", "7", "8", "9">>
Digits == {DigitSeq[i] : i \in 1..10}
DigitVal(c) == (CHOOSE i \in 1..10 : DigitSeq[i] = c) - 1

\* the characters str.strip(), int() and float() treat as surrounding blanks
Whitespace == {" ", "\n", "\t", "\r"}

SetMin(S) == CHOOSE x \in S : \A y \in S : x <= y
SetMax(S) == CHOOSE x \in S : \A y \in S : x >= y
SeqRange(s) == {s[i] : i \in 1..Len(s)}

\* s[a:b] with 0 <= a <= b: clipped to the text, never an error
Slice(s, a, b) ==
    IF a >= Len(s) THEN <<>>
    ELSE SubSeq(s, a + 1, IF b < Len(s) THEN b ELSE Len(s))

\* s[a:]
SliceFrom(s, a) == IF a >= Len(s) THEN <<>> ELSE SubSeq(s, a + 1, Len(s))

Strip(s) ==
    LET keep == {i \in 1..Len(s) : s[i] \notin Whitespace}
    IN  IF keep = {} THEN <<>> ELSE SubSeq(s, SetMin(keep), SetMax(keep))

RECURSIVE Split(_, _)
Split(s, sep) ==
    LET at == {i \in 1..Len(s) : s[i] = sep}
    IN  IF at = {} THEN <<s>>
        ELSE <<SubSeq(s, 1, SetMin(at) - 1)>>
                 \o Split(SubSeq(s, SetMin(at) + 1, Len(s)), sep)

StartsWith(s, p) == Len(s) >= Len(p) /\ SubSeq(s, 1, Len(p)) = p

\* p in s
Contains(s, p) == \E i \in 0..(Len(s) - Len(p)) : SubSeq(s, i + 1, i + Len(p)) = p

RECURSIVE NatOf(_)
NatOf(ds) ==
    IF ds = <<>> THEN 0
    ELSE 10 * NatOf(SubSeq(ds, 1, Len(ds) - 1)) + DigitVal(ds[Len(ds)])

RECURSIVE DigitsOf(_)
DigitsOf(n) ==
    IF n < 10 THEN <<DigitSeq[n + 1]>>
    ELSE DigitsOf(n \div 10) \o <<DigitSeq[(n % 10) + 1]>>

Unsigned(t) == IF t # <<>> /\ t[1] \in {"+", "-"} THEN Tail(t) ELSE t
SignOf(t) == IF t # <<>> /\ t[1] = "-" THEN -1 ELSE 1

\* int(s): [ok |-> FALSE] is ValueError.  Blanks around the number and a sign
\* are accepted, as Python does; the model's texts hold no "_".
PyInt(s) ==
    LET t == Strip(s)
        b == Unsigned(t)
        ok == b # <<>> /\ \A i \in 1..Len(b) : b[i] \in Digits
    IN  [ok |-> ok, val |-> IF ok THEN SignOf(t) * NatOf(b) ELSE 0]

\* float(s) in thousandths: [ok |-> FALSE] is ValueError.  Accepted: blanks
\* around, a sign, digits with at most one "." and at least one digit.  The
\* model's texts hold no exponent, "inf", "nan" or "_".  Decimals beyond the
\* third are cut; the model's coordinate texts never have more than three.
PyFloat(s) ==
    LET t == Strip(s)
        b == Unsigned(t)
        dots == {i \in 1..Len(b) : b[i] = "."}
        ok == /\ b # <<>>
              /\ \A i \in 1..Len(b) : b[i] \in Digits \cup {"."}
              /\ Cardinality(dots) <= 1
              /\ \E i \in 1..Len(b) : b[i] \in Digits
        d == IF dots = {} THEN Len(b) + 1 ELSE SetMin(dots)
        ip == SubSeq(b, 1, d - 1)
        fp == SubSeq(SubSeq(b, d + 1, Len(b)) \o <<"0", "0", "0">>, 1, 3)
    IN  [ok |-> ok, val |-> IF ok THEN SignOf(t) * (1000 * NatOf(ip) + NatOf(fp)) ELSE 0]

\* the nearest integer to num/den (den > 0), a tie to the even one
RoundHalfEven(num, den) ==
    LET q == num \div den
        r == num - q * den
    IN  IF 2 * r < den THEN q
        ELSE IF 2 * r > den THEN q + 1
        ELSE IF q % 2 = 0 THEN q ELSE q + 1

PadLeft(s, w) == IF Len(s) >= w THEN s ELSE [i \in 1..(w - Len(s)) |-> " "] \o s

\* f"{v:<width>.3f}" of v = num/den thousandths: the sign of v is kept also
\* when v rounds to zero ("-0.000"); a text longer than <width> is not cut.
FormatF3(num, den, width) ==
    LET m == RoundHalfEven(num, den)
        a == IF m < 0 THEN -m ELSE m
        f == a % 1000
        body == DigitsOf(a \div 1000)
                  \o <<".", DigitSeq[(f \div 100) + 1], DigitSeq[((f \div 10) % 10) + 1],
                       DigitSeq[(f % 10) + 1]>>
    IN  PadLeft(IF num < 0 THEN <<"-">> \o body ELSE body, width)

-----------------------------------------------------------------------------
(* make_vina_box_from_residues.py *)

\* the record tags of line.startswith(("ATOM", "HETATM"))
AtomTags == {<<"A", "T", "O", "M">>, <<"H", "E", "T", "A", "T", "M">>}
IsAtomRecord(line) == \E tag \in AtomTags : StartsWith(line, tag)

\* parse_residue_item with the slip "chain, resid = item.split(":")[:2]": text
\* after a second ":" is dropped instead of being an error
parse_residue_item_first_two(item) ==
    LET parts == Split(item, ":")
        resid == IF Len(parts) >= 2 THEN PyInt(parts[2]) ELSE [ok |-> FALSE, val |-> 0]
        ok == Len(parts) >= 2 /\ resid.ok
    IN  [ok |-> ok, pair |-> IF ok THEN <<Strip(parts[1]), resid.val>> ELSE <<>>]

\* the try block of parse_residue_list for one stripped item: ok = FALSE is
\* the ValueError of the unpacking (not exactly one ":") or of int(resid)
parse_residue_item(item) ==
    LET parts == Split(item, ":")
        resid == IF Len(parts) = 2 THEN PyInt(parts[2]) ELSE [ok |-> FALSE, val |-> 0]
        ok == Len(parts) = 2 /\ resid.ok
    IN  [ok |-> ok, pair |-> IF ok THEN <<Strip(parts[1]), resid.val>> ELSE <<>>]

\* the for loop of parse_residue_list over reslist.split(","): the first item
\* whose try block fails ends the script with sys.exit naming that item
RECURSIVE parse_residue_items(_, _)
parse_residue_items(items, acc) ==
    IF items = <<>> THEN [ok |-> TRUE, residues |-> acc, item |-> <<>>]
    ELSE LET item == Strip(Head(items))
         IN  IF item = <<>> THEN parse_residue_items(Tail(items), acc)
             ELSE IF parse_residue_item(item).ok
                  THEN parse_residue_items(Tail(items),
                                           Append(acc, parse_residue_item(item).pair))
                  ELSE [ok |-> FALSE, residues |-> <<>>, item |-> item]

\* parse_residue_list with the slip "except ValueError: continue": a malformed
\* item is dropped instead of ending the script
RECURSIVE parse_residue_items_lenient(_, _)
parse_residue_items_lenient(items, acc) ==
    IF items = <<>> THEN [ok |-> TRUE, residues |-> acc, item |-> <<>>]
    ELSE LET item == Strip(Head(items))
         IN  IF item # <<>> /\ parse_residue_item(item).ok
             THEN parse_residue_items_lenient(Tail(items),
                                              Append(acc, parse_residue_item(item).pair))
             ELSE parse_residue_items_lenient(Tail(items), acc)

parse_residue_list_lenient(text) == parse_residue_items_lenient(Split(text, ","), <<>>)

parse_residue_list(text) == parse_residue_items(Split(text, ","), <<>>)

\* in_targets with the chain id read one column to the left (line[20])
in_targets_col20(line, targets) ==
    LET chain == Strip(<<line[21]>>)
        resid == PyInt(Slice(line, 22, 26))
    IN  resid.ok /\ <<chain, resid.val>> \in targets

\* get_residue_coords, the test of one ATOM/HETATM line of at least 22
\* characters: chain = line[21].strip(), resid = int(line[22:26]) (a
\* ValueError skips the line), (chain, resid) in targets
in_targets(line, targets) ==
    LET chain == Strip(<<line[22]>>)
        resid == PyInt(Slice(line, 22, 26))
    IN  resid.ok /\ <<chain, resid.val>> \in targets

\* get_residue_coords, the inner try block: the three appends run in order and
\* the first float() that raises ValueError abandons the rest of the block
coords_try(acc, line) ==
    LET x == PyFloat(Slice(line, 30, 38))
        y == PyFloat(Slice(line, 38, 46))
        z == PyFloat(Slice(line, 46, 54))
    IN  IF ~x.ok THEN acc
        ELSE IF ~y.ok THEN [acc EXCEPT !.xs = Append(@, x.val)]
        ELSE IF ~z.ok THEN [acc EXCEPT !.xs = Append(@, x.val), !.ys = Append(@, y.val)]
        ELSE [xs |-> Append(acc.xs, x.val), ys |-> Append(acc.ys, y.val),
              zs |-> Append(acc.zs, z.val)]

\* bounding_box with the padding added once instead of on both sides
bounding_box_pad_once(vx, vy, vz, pad) ==
    LET lo(v) == SetMin(SeqRange(v))
        hi(v) == SetMax(SeqRange(v))
    IN  [cx |-> [num |-> lo(vx) + hi(vx), den |-> 2],
         cy |-> [num |-> lo(vy) + hi(vy), den |-> 2],
         cz |-> [num |-> lo(vz) + hi(vz), den |-> 2],
         sx |-> (hi(vx) - lo(vx)) + pad,
         sy |-> (hi(vy) - lo(vy)) + pad,
         sz |-> (hi(vz) - lo(vz)) + pad]

\* main, lines 55-60: min/max per list, center = statistics.mean([min, max]),
\* size = (max - min) + 2*padding; center is a fraction of thousandths
bounding_box(vx, vy, vz, pad) ==
    LET lo(v) == SetMin(SeqRange(v))
        hi(v) == SetMax(SeqRange(v))
    IN  [cx |-> [num |-> lo(vx) + hi(vx), den |-> 2],
         cy |-> [num |-> lo(vy) + hi(vy), den |-> 2],
         cz |-> [num |-> lo(vz) + hi(vz), den |-> 2],
         sx |-> (hi(vx) - lo(vx)) + 2 * pad,
         sy |-> (hi(vy) - lo(vy)) + 2 * pad,
         sz |-> (hi(vz) - lo(vz)) + 2 * pad]

KeyReceptor == <<"r", "e", "c", "e", "p", "t", "o", "r", " ", "=", " ">>
KeyCenterX == <<"c", "e", "n", "t", "e", "r", "_", "x", " ", "=", " ">>
KeyCenterY == <<"c", "e", "n", "t", "e", "r", "_", "y", " ", "=", " ">>
KeyCenterZ == <<"c", "e", "n", "t", "e", "r", "_", "z", " ", "=", " ">>
KeySizeX == <<"s", "i", "z", "e", "_", "x", " ", "=", " ">>
KeySizeY == <<"s", "i", "z", "e", "_", "y", " ", "=", " ">>
KeySizeZ == <<"s", "i", "z", "e", "_", "z", " ", "=", " ">>
SearchEffort ==
    << <<"e", "x", "h", "a", "u", "s", "t", "i", "v", "e", "n", "e", "s", "s", " ", "=", " ", "8", "\n">>,
       <<"n", "u", "m", "_", "m", "o", "d", "e", "s", " ", "=", " ", "9", "\n">>,
       <<"e", "n", "e", "r", "g", "y", "_", "r", "a", "n", "g", "e", " ", "=", " ", "3", "\n">> >>

\* main, lines 62-66: the text written to args.out, as its lines
config_text(path, b) ==
    << KeyReceptor \o path \o <<"\n">>,
       KeyCenterX \o FormatF3(b.cx.num, b.cx.den, 0) \o <<"\n">>,
       KeyCenterY \o FormatF3(b.cy.num, b.cy.den, 0) \o <<"\n">>,
       KeyCenterZ \o FormatF3(b.cz.num, b.cz.den, 0) \o <<"\n">>,
       KeySizeX \o FormatF3(b.sx, 1, 0) \o <<"\n">>,
       KeySizeY \o FormatF3(b.sy, 1, 0) \o <<"\n">>,
       KeySizeZ \o FormatF3(b.sz, 1, 0) \o <<"\n">> >> \o SearchEffort

\* the script ends: sys.exit(<text>) and an uncaught exception both give exit
\* status 1, the normal end of main gives 0
BoxEnds(status, msg) ==
    /\ bpc' = "done"
    /\ bexit' = <<status>>
    /\ bmsg' = msg

\* main, lines 49-50
box_check_receptor ==
    /\ bpc = "check"
    /\ IF receptor_exists
       THEN bpc' = "parse" /\ UNCHANGED <<bexit, bmsg>>
       ELSE BoxEnds(1, <<"receptor_not_found", receptor_path>>)
    /\ UNCHANGED <<receptor_path, receptor_exists, receptor, reslist, padding, residues,
                   li, xs, ys, zs, box, config, config_opened>>
    /\ UNCHANGED pipeVars
    /\ UNCHANGED vinaVars

\* main, line 52: residues = parse_residue_list(args.residues)
box_parse_residues ==
    /\ bpc = "parse"
    /\ LET r == parse_residue_list(reslist)
       IN  IF r.ok
           THEN bpc' = "coords" /\ residues' = r.residues /\ UNCHANGED <<bexit, bmsg>>
           ELSE BoxEnds(1, <<"invalid_residue", r.item>>) /\ UNCHANGED residues
    /\ UNCHANGED <<receptor_path, receptor_exists, receptor, reslist, padding,
                   li, xs, ys, zs, box, config, config_opened>>
    /\ UNCHANGED pipeVars
    /\ UNCHANGED vinaVars

\* get_residue_coords, one iteration of "for line in f"; line[21] of an
\* ATOM/HETATM line shorter than 22 characters is an uncaught IndexError
get_residue_coords_line ==
    /\ bpc = "coords"
    /\ li < Len(receptor)
    /\ LET line == receptor[li + 1]
           targets == SeqRange(residues)
           acc == [xs |-> xs, ys |-> ys, zs |-> zs]
           new == IF IsAtomRecord(line) /\ Len(line) > 21 /\ in_targets(line, targets)
                  THEN coords_try(acc, line) ELSE acc
       IN  IF IsAtomRecord(line) /\ Len(line) <= 21
           THEN BoxEnds(1, <<"traceback", <<"IndexError">> >>) /\ UNCHANGED <<li, xs, ys, zs>>
           ELSE /\ li' = li + 1
                /\ xs' = new.xs
                /\ ys' = new.ys
                /\ zs' = new.zs
                /\ UNCHANGED <<bpc, bexit, bmsg>>
    /\ UNCHANGED <<receptor_path, receptor_exists, receptor, reslist, padding, residues,
                   box, config, config_opened>>
    /\ UNCHANGED pipeVars
    /\ UNCHANGED vinaVars

\* get_residue_coords, lines 37-39, after the last line
get_residue_coords_end ==
    /\ bpc = "coords"
    /\ li = Len(receptor)
    /\ IF xs = <<>>
       THEN BoxEnds(1, <<"no_matching_residues", <<>> >>)
       ELSE bpc' = "box" /\ UNCHANGED <<bexit, bmsg>>
    /\ UNCHANGED <<receptor_path, receptor_exists, receptor, reslist, padding, residues,
                   li, xs, ys, zs, box, config, config_opened>>
    /\ UNCHANGED pipeVars
    /\ UNCHANGED vinaVars

\* main, lines 55-60; min() of an empty list is an uncaught ValueError
box_compute ==
    /\ bpc = "box"
    /\ IF ys = <<>> \/ zs = <<>>
       THEN BoxEnds(1, <<"traceback", <<"ValueError">> >>) /\ UNCHANGED box
       ELSE /\ box' = <<bounding_box(xs, ys, zs, padding)>>
            /\ bpc' = "write"
            /\ UNCHANGED <<bexit, bmsg>>
    /\ UNCHANGED <<receptor_path, receptor_exists, receptor, reslist, padding, residues,
                   li, xs, ys, zs, config, config_opened>>
    /\ UNCHANGED pipeVars
    /\ UNCHANGED vinaVars

\* main, lines 62-75, and the normal end of the script
box_write_config ==
    /\ bpc = "write"
    /\ config' = [exists |-> TRUE, lines |-> config_text(receptor_path, box[1])]
    /\ config_opened' = TRUE
    /\ BoxEnds(0, <<"config_written", <<>> >>)
    /\ UNCHANGED <<receptor_path, receptor_exists, receptor, reslist, padding, residues,
                   li, xs, ys, zs, box>>
    /\ UNCHANGED pipeVars
    /\ UNCHANGED vinaVars

NextBox ==
    \/ box_check_receptor
    \/ box_parse_residues
    \/ get_residue_coords_line
    \/ get_residue_coords_end
    \/ box_compute
    \/ box_write_config

-----------------------------------------------------------------------------
(* Inputs of the box script *)

TagATOM == <<"A", "T", "O", "M", " ", " ">>
TagHETATM == <<"H", "E", "T", "A", "T", "M">>
\* columns 6-20 (serial, atom name, alternate location, residue name) and 26-29
Cols6to20 == <<" ", " ", " ", " ", "1", " ", " ", "C", " ", " ", " ", "L", "I", "G", " ">>
Cols26to29 == <<" ", " ", " ", " ">>
LineTail == <<" ", " ", "1", ".", "0", "0", " ", "C", "\n">>

\* a coordinate field as the file formats hold it: "%8.3f" of v thousandths
Field(v) == FormatF3(v, 1, 8)
BadField == <<" ", " ", " ", "*", ".", "*", "*", "*">>

AtomLine(tag, chain, resid4, fx, fy, fz) ==
    tag \o Cols6to20 \o <<chain>> \o resid4 \o Cols26to29 \o fx \o fy \o fz \o LineTail

Resid4(n) == PadLeft(DigitsOf(n), 4)

RecA1 == AtomLine(TagATOM, "A", Resid4(1), Field(1000), Field(2000), Field(3000))
RecA1b == AtomLine(TagATOM, "A", Resid4(1), Field(4000), Field(-2000), Field(3001))
RecB2 == AtomLine(TagHETATM, "B", Resid4(2), Field(-1000), Field(-2000), Field(-3000))
RecHalf == AtomLine(TagATOM, "A", Resid4(1), Field(7000), BadField, Field(0))
RecBadResid == AtomLine(TagATOM, "A", <<" ", " ", " ", "x">>, Field(1000), Field(2000), Field(3000))
RecRemark == <<"R", "E", "M", "A", "R", "K", "\n">>
RecShort == <<"A", "T", "O", "M", "\n">>

ReceptorLines == {RecA1, RecA1b, RecB2, RecHalf, RecBadResid, RecRemark, RecShort}
ReceptorFiles == UNION {[1..n -> ReceptorLines] : n \in 0..MaxRecLines}

PlainPath == <<"r", ".", "p", "d", "b", "q", "t">>
ReceptorPaths == {PlainPath}

ResidueArgs ==
    { <<"A", ":", "1">>,
      <<" ", "A", ":", "1", " ", ",", "B", ":", "2">>,
      <<"B", ":", "2">>,
      <<"A", "-", "1", "2">>,
      <<"A", "-", "1", "2", ",", "A", ":", "1">>,
      <<"C", ":", "9">> }

\* --padding, thousandths (the default is 5.0)
Paddings == {0, 5000}

NoConfig == [exists |-> FALSE, lines |-> <<>>]
StaleConfig ==
    [exists |-> TRUE,
     lines |-> << <<"r", "e", "c", "e", "p", "t", "o", "r", " ", "=", " ", "o", "l", "d", "\n">> >>]

EmptyDir == [name \in {} |-> <<>>]
NoCenter == [x |-> <<>>, y |-> <<>>, z |-> <<>>]

\* the pipeline is not part of a stand-alone run of the box script
PipeIdle ==
    /\ ppc = "idle"
    /\ pexit = <<>>
    /\ files = EmptyDir
    /\ todo = {}
    /\ written = {}
    /\ center = NoCenter
    /\ launched = {}
    /\ output = {}
    /\ converted = EmptyDir
    /\ helpers_in_cwd = FALSE

\* the batch script is not running
VinaIdle ==
    /\ vpc = "idle"
    /\ ligands_dir_exists = TRUE
    /\ ligands = <<>>
    /\ vi = 0
    /\ completed = 0
    /\ vina_calls = <<>>
    /\ vexit = <<>>
    /\ vmsg = <<>>

BoxStart ==
    /\ residues = <<>>
    /\ li = 0
    /\ xs = <<>>
    /\ ys = <<>>
    /\ zs = <<>>
    /\ box = <<>>
    /\ config_opened = FALSE
    /\ bexit = <<>>
    /\ bmsg = <<>>

InitBox ==
    /\ bpc = "check"
    /\ receptor_path \in ReceptorPaths
    /\ receptor_exists \in BOOLEAN
    /\ receptor \in (IF receptor_exists THEN ReceptorFiles ELSE {<<>>})
    /\ reslist \in ResidueArgs
    /\ padding \in Paddings
    /\ config \in {NoConfig, StaleConfig}
    /\ BoxStart
    /\ PipeIdle
    /\ VinaIdle

SpecBox == InitBox /\ [][NextBox]_vars

\* every residue list argument of at most MaxResLen characters over an
\* alphabet holding a chain letter, the two separators, two digits, a sign mark
\* and a blank
ResAlphabet == {"A", ":", "1", "2", "-", ",", " "}
ResTexts == UNION {[1..n -> ResAlphabet] : n \in 0..MaxResLen}

InitParse ==
    /\ bpc = "check"
    /\ receptor_path = PlainPath
    /\ receptor_exists = TRUE
    /\ receptor = <<RecA1, RecB2>>
    /\ reslist \in ResTexts
    /\ padding = 5000
    /\ config = NoConfig
    /\ BoxStart
    /\ PipeIdle
    /\ VinaIdle

SpecParse == InitParse /\ [][NextBox]_vars

-----------------------------------------------------------------------------
(* run_vina_batch.py *)

\* the characters of the file names, in the order of their code points
CodeOrder == <<".", "B", "_", "a", "b", "c", "d", "e", "n", "o", "p", "q", "s", "t", "u", "x">>
CodePoint(ch) == CHOOSE i \in 1..Len(CodeOrder) : CodeOrder[i] = ch

\* s < t of two str: by code point at the first difference, a proper prefix
\* before the longer text
RECURSIVE StrLess(_, _)
StrLess(s, t) ==
    IF t = <<>> THEN FALSE
    ELSE IF s = <<>> THEN TRUE
    ELSE IF Head(s) = Head(t) THEN StrLess(Tail(s), Tail(t))
    ELSE CodePoint(Head(s)) < CodePoint(Head(t))

\* list.sort() of a list of distinct names
RECURSIVE SortNames(_)
SortNames(names) ==
    IF names = {} THEN <<>>
    ELSE LET first == CHOOSE m \in names : \A o \in names \ {m} : StrLess(m, o)
         IN  <<first>> \o SortNames(names \ {first})

\* str.endswith(".pdbqt") of both scripts
Suffix == <<".", "p", "d", "b", "q", "t">>
EndsWith(s, p) == Len(s) >= Len(p) /\ SubSeq(s, Len(s) - Len(p) + 1, Len(s)) = p

\* main, lines 30-31: the entries of the directory that end with ".pdbqt",
\* sorted
list_ligands(names) == SortNames({f \in names : EndsWith(f, Suffix)})

\* main, line 41: os.path.splitext(lig)[0] + "_out.pdbqt", for a name ending
\* with ".pdbqt"
out_name(lig) ==
    SubSeq(lig, 1, Len(lig) - Len(Suffix))
        \o <<"_", "o", "u", "t", ".", "p", "d", "b", "q", "t">>

\* a counter that takes every docking call for a success
count_completed_always(n, returncode) == n + 1

\* main, lines 53-57: subprocess.run(cmd, check=True) raises
\* CalledProcessError on a nonzero return code of vina, which skips
\* "completed += 1" and is caught
count_completed(n, returncode) == IF returncode = 0 THEN n + 1 ELSE n

\* return codes of vina: success, or a failure
VinaCodes == {0, 1}

\* fail(msg) of lines 15-17 has code=2
FailCode == 2

\* sys.exit, or the end of main
VinaEnds(status, msg) ==
    /\ vpc' = "done"
    /\ vexit' = <<status>>
    /\ vmsg' = msg

\* main, lines 23-37: the three inputs are validated, the ligands are listed
batch_validate ==
    /\ vpc = "check"
    /\ IF ~receptor_exists
       THEN VinaEnds(FailCode, <<"receptor_not_found">>) /\ UNCHANGED ligands
       ELSE IF ~config.exists
       THEN VinaEnds(FailCode, <<"config_not_found">>) /\ UNCHANGED ligands
       ELSE IF ~ligands_dir_exists
       THEN VinaEnds(FailCode, <<"ligands_dir_not_found">>) /\ UNCHANGED ligands
       ELSE IF list_ligands(DOMAIN files) = <<>>
       THEN VinaEnds(FailCode, <<"no_ligands">>) /\ UNCHANGED ligands
       ELSE /\ vpc' = "loop"
            /\ ligands' = list_ligands(DOMAIN files)
            /\ UNCHANGED <<vexit, vmsg>>
    /\ UNCHANGED <<ligands_dir_exists, vi, completed, vina_calls>>
    /\ UNCHANGED boxVars
    /\ UNCHANGED pipeVars

\* main, lines 39-59: one iteration of the loop, vina run on ligands[i-1]
batch_dock_one ==
    /\ vpc = "loop"
    /\ vi < Len(ligands)
    /\ \E rc \in VinaCodes :
           /\ vina_calls' = Append(vina_calls,
                                   [lig |-> ligands[vi + 1],
                                    out |-> out_name(ligands[vi + 1]),
                                    rc |-> rc])
           /\ completed' = count_completed(completed, rc)
    /\ vi' = vi + 1
    /\ UNCHANGED <<vpc, ligands_dir_exists, ligands, vexit, vmsg>>
    /\ UNCHANGED boxVars
    /\ UNCHANGED pipeVars

\* main, lines 61-62, after the last ligand: the report, and exit status 0
batch_report ==
    /\ vpc = "loop"
    /\ vi = Len(ligands)
    /\ VinaEnds(0, <<"completed", completed, Len(ligands)>>)
    /\ UNCHANGED <<ligands_dir_exists, ligands, vi, completed, vina_calls>>
    /\ UNCHANGED boxVars
    /\ UNCHANGED pipeVars

NextVina ==
    \/ batch_validate
    \/ batch_dock_one
    \/ batch_report

-----------------------------------------------------------------------------
(* run_pipeline.py *)

\* run_cmd with check=True left out: a failed command is not noticed
run_cmd_unchecked(returncode) == <<>>

\* run_cmd: subprocess.run(check=True) raises CalledProcessError on a nonzero
\* return code, which run_cmd answers with sys.exit(1); the value is the
\* pipeline's exit, <<>> when run_cmd returns
run_cmd(returncode) == IF returncode # 0 THEN <<1>> ELSE <<>>

\* main, one "run_cmd(cmd, desc)" statement followed by the step `next`
RunCmdThen(name, returncode, next) ==
    /\ launched' = launched \cup {name}
    /\ pexit' = run_cmd(returncode)
    /\ IF run_cmd(returncode) = <<>>
       THEN ppc' = next /\ output' = output \cup {<<"done", name>>}
       ELSE ppc' = "done" /\ output' = output \cup {<<"error", name>>}

\* an uncaught exception in main: traceback, exit status 1
PipelineCrashes(exception) ==
    /\ ppc' = "done"
    /\ pexit' = <<1>>
    /\ output' = output \cup {<<"traceback", exception>>}

\* return codes of an external helper: success, or a failure
HelperCodes == {0, 1}

\* main, lines 187-195
step1_combine ==
    /\ ppc = "step1"
    /\ \E rc \in HelperCodes : RunCmdThen("combine", rc, "step2")
    /\ UNCHANGED <<files, todo, written, center, converted, helpers_in_cwd>>
    /\ UNCHANGED boxVars
    /\ UNCHANGED vinaVars

\* main, lines 197-199: on success the converter has filled pdbqt_dir
step2_convert ==
    /\ ppc = "step2"
    /\ \E rc \in HelperCodes :
           /\ RunCmdThen("convert", rc, "step3")
           /\ files' = IF rc = 0 THEN converted ELSE files
    /\ UNCHANGED <<todo, written, center, converted, helpers_in_cwd>>
    /\ UNCHANGED boxVars
    /\ UNCHANGED vinaVars

\* main, lines 201-203: subprocess.run starts the box script and waits for it
step3_launch_box ==
    /\ ppc = "step3"
    /\ bpc = "idle"
    /\ ppc' = "step3wait"
    /\ bpc' = "check"
    /\ launched' = launched \cup {"box"}
    /\ UNCHANGED <<pexit, files, todo, written, center, output, converted, helpers_in_cwd>>
    /\ UNCHANGED <<receptor_path, receptor_exists, receptor, reslist, padding, residues,
                   li, xs, ys, zs, box, config, config_opened, bexit, bmsg>>
    /\ UNCHANGED vinaVars

\* run_cmd of step 3, once the box script has ended with its exit status
step3_box_returns ==
    /\ ppc = "step3wait"
    /\ bpc = "done"
    /\ RunCmdThen("box", bexit[1], "step4")
    /\ UNCHANGED <<files, todo, written, center, converted, helpers_in_cwd>>
    /\ UNCHANGED boxVars
    /\ UNCHANGED vinaVars

KeywordX == <<"c", "e", "n", "t", "e", "r", "_", "x">>
KeywordY == <<"c", "e", "n", "t", "e", "r", "_", "y">>
KeywordZ == <<"c", "e", "n", "t", "e", "r", "_", "z">>

\* main, lines 211-217, the loop over the config's lines: acc.crash is the
\* uncaught IndexError of split("=")[1] or ValueError of float()
RECURSIVE read_center(_, _)
read_center(lines, acc) ==
    IF lines = <<>> \/ acc.crash THEN acc
    ELSE LET line == Head(lines)
             parts == Split(line, "=")
             v == IF Len(parts) >= 2 THEN PyFloat(Strip(parts[2]))
                  ELSE [ok |-> FALSE, val |-> 0]
             key == IF Contains(line, KeywordX) THEN "x"
                    ELSE IF Contains(line, KeywordY) THEN "y"
                    ELSE IF Contains(line, KeywordZ) THEN "z"
                    ELSE "none"
         IN  IF key = "none" THEN read_center(Tail(lines), acc)
             ELSE IF ~v.ok THEN [acc EXCEPT !.crash = TRUE]
             ELSE read_center(Tail(lines), [acc EXCEPT ![key] = <<v.val>>])

\* main, lines 205-221: read the box center; without one, skip recentering
step4_read_center ==
    /\ ppc = "step4"
    /\ LET none == [x |-> <<>>, y |-> <<>>, z |-> <<>>, crash |-> FALSE]
           got == IF config.exists THEN read_center(config.lines, none) ELSE none
       IN  IF got.crash
           THEN PipelineCrashes("config") /\ UNCHANGED <<center, todo>>
           ELSE /\ center' = [x |-> got.x, y |-> got.y, z |-> got.z]
                /\ pexit' = pexit
                /\ IF <<>> \in {got.x, got.y, got.z}
                   THEN /\ ppc' = "step5"
                        /\ todo' = {}
                        /\ output' = output \cup {<<"skip_recentering", "">>}
                   ELSE /\ ppc' = "step4loop"
                        /\ todo' = DOMAIN files
                        /\ output' = output
    /\ UNCHANGED <<files, written, launched, converted, helpers_in_cwd>>
    /\ UNCHANGED boxVars
    /\ UNCHANGED vinaVars

\* main, lines 232-237, the try block of the centroid loop: as in
\* get_residue_coords, the first float() that fails abandons the block
centroid_try(acc, ln) ==
    LET x == PyFloat(Slice(ln, 30, 38))
        y == PyFloat(Slice(ln, 38, 46))
        z == PyFloat(Slice(ln, 46, 54))
    IN  IF ~x.ok THEN acc
        ELSE IF ~y.ok THEN [acc EXCEPT !.xs = Append(@, x.val)]
        ELSE IF ~z.ok THEN [acc EXCEPT !.xs = Append(@, x.val), !.ys = Append(@, y.val)]
        ELSE [xs |-> Append(acc.xs, x.val), ys |-> Append(acc.ys, y.val),
              zs |-> Append(acc.zs, z.val)]

\* main, lines 229-237: xs, ys, zs of one ligand file
RECURSIVE centroid_lists(_, _)
centroid_lists(lines, acc) ==
    IF lines = <<>> THEN acc
    ELSE centroid_lists(Tail(lines),
                        IF IsAtomRecord(Head(lines)) THEN centroid_try(acc, Head(lines))
                        ELSE acc)

RECURSIVE Sum(_)
Sum(v) == IF v = <<>> THEN 0 ELSE Head(v) + Sum(Tail(v))

\* main, lines 242-245, one axis: d = center - sum(v)/len(v), the fraction
\* (len(v)*center - sum(v)) / len(v) of thousandths
axis_delta(c, v) == [num |-> Len(v) * c - Sum(v), den |-> Len(v)]

\* main, lines 249-257, one line of the file: an ATOM/HETATM line whose three
\* fields parse gets x+dx, y+dy, z+dz as "%8.3f" between ln[:30] and ln[54:];
\* every other line is kept as it is
recenter_line(ln, dx, dy, dz) ==
    LET x == PyFloat(Slice(ln, 30, 38))
        y == PyFloat(Slice(ln, 38, 46))
        z == PyFloat(Slice(ln, 46, 54))
    IN  IF IsAtomRecord(ln) /\ x.ok /\ y.ok /\ z.ok
        THEN Slice(ln, 0, 30)
               \o FormatF3(x.val * dx.den + dx.num, dx.den, 8)
               \o FormatF3(y.val * dy.den + dy.num, dy.den, 8)
               \o FormatF3(z.val * dz.den + dz.num, dz.den, 8)
               \o SliceFrom(ln, 54)
        ELSE ln

\* main, lines 226-260 for the lines of one ligand file and the center c:
\* "skip" is the continue of line 240, "crash" the uncaught ZeroDivisionError
\* of sum(ys)/len(ys) or sum(zs)/len(zs), "write" the rewritten file
recenter(lines, c) ==
    LET acc == centroid_lists(lines, [xs |-> <<>>, ys |-> <<>>, zs |-> <<>>])
    IN  IF acc.xs = <<>> THEN [kind |-> "skip", out |-> lines]
        ELSE IF acc.ys = <<>> \/ acc.zs = <<>> THEN [kind |-> "crash", out |-> lines]
        ELSE [kind |-> "write",
              out |-> [i \in 1..Len(lines) |->
                          recenter_line(lines[i], axis_delta(c.x[1], acc.xs),
                                        axis_delta(c.y[1], acc.ys),
                                        axis_delta(c.z[1], acc.zs))]]

\* main, lines 222-260: one iteration of "for lig in os.listdir(pdbqt_dir)",
\* os.listdir giving the entries in an arbitrary order
step4_recenter_file ==
    /\ ppc = "step4loop"
    /\ \E lig \in todo :
           LET r == IF EndsWith(lig, Suffix) THEN recenter(files[lig], center)
                    ELSE [kind |-> "skip", out |-> files[lig]]
           IN  IF r.kind = "crash"
               THEN /\ PipelineCrashes("ZeroDivisionError")
                    /\ UNCHANGED <<files, todo, written>>
               ELSE /\ todo' = todo \ {lig}
                    /\ files' = IF r.kind = "write" THEN [files EXCEPT ![lig] = r.out]
                                ELSE files
                    /\ written' = IF r.kind = "write" THEN written \cup {lig} ELSE written
                    /\ UNCHANGED <<ppc, pexit, output>>
    /\ UNCHANGED <<center, launched, converted, helpers_in_cwd>>
    /\ UNCHANGED boxVars
    /\ UNCHANGED vinaVars

\* main, line 262, after the last entry
step4_done ==
    /\ ppc = "step4loop"
    /\ todo = {}
    /\ ppc' = "step5"
    /\ output' = output \cup {<<"recentered", "">>}
    /\ UNCHANGED <<pexit, files, todo, written, center, launched, converted, helpers_in_cwd>>
    /\ UNCHANGED boxVars
    /\ UNCHANGED vinaVars

\* python3, given a script path it cannot open, ends with status 2
CannotOpenScript == 2

\* main, lines 264-266: "python3 run_vina_batch.py ..." names the script
\* relative to the working directory, which is the run directory since line
\* 135 (vina_script of line 161 is not used).  When that directory holds no
\* such file python3 ends at once and the batch script never starts;
\* otherwise subprocess.run starts the batch script and waits for it
step5_docking ==
    /\ ppc = "step5"
    /\ vpc = "idle"
    /\ IF helpers_in_cwd
       THEN /\ ppc' = "step5wait"
            /\ vpc' = "check"
            /\ launched' = launched \cup {"docking"}
            /\ UNCHANGED <<pexit, output>>
       ELSE /\ RunCmdThen("docking", CannotOpenScript, "step6")
            /\ UNCHANGED vpc
    /\ UNCHANGED <<files, todo, written, center, converted, helpers_in_cwd>>
    /\ UNCHANGED boxVars
    /\ UNCHANGED <<ligands_dir_exists, ligands, vi, completed, vina_calls, vexit, vmsg>>

\* run_cmd of step 5, once the batch script has ended with its exit status
step5_batch_returns ==
    /\ ppc = "step5wait"
    /\ vpc = "done"
    /\ RunCmdThen("docking", vexit[1], "step6")
    /\ UNCHANGED <<files, todo, written, center, converted, helpers_in_cwd>>
    /\ UNCHANGED boxVars
    /\ UNCHANGED vinaVars

\* main, lines 268-273
step6_summary ==
    /\ ppc = "step6"
    /\ \E rc \in HelperCodes : RunCmdThen("summary", rc, "step7")
    /\ UNCHANGED <<files, todo, written, center, converted, helpers_in_cwd>>
    /\ UNCHANGED boxVars
    /\ UNCHANGED vinaVars

\* main, lines 275-278, and the normal end of the pipeline (exit status 0)
step7_top_ligands ==
    /\ ppc = "step7"
    /\ \E rc \in HelperCodes :
           /\ launched' = launched \cup {"top_ligands"}
           /\ ppc' = "done"
           /\ pexit' = IF run_cmd(rc) = <<>> THEN <<0>> ELSE run_cmd(rc)
           /\ output' = output \cup {<<IF rc = 0 THEN "done" ELSE "error", "top_ligands">>}
    /\ UNCHANGED <<files, todo, written, center, converted, helpers_in_cwd>>
    /\ UNCHANGED boxVars
    /\ UNCHANGED vinaVars

NextPipe ==
    \/ step1_combine
    \/ step2_convert
    \/ step3_launch_box
    \/ NextBox
    \/ step3_box_returns
    \/ step4_read_center
    \/ step4_recenter_file
    \/ step4_done
    \/ step5_docking
    \/ NextVina
    \/ step5_batch_returns
    \/ step6_summary
    \/ step7_top_ligands

-----------------------------------------------------------------------------
(* Inputs of the pipeline *)

LigP == AtomLine(TagATOM, "L", Resid4(1), Field(1000), Field(1000), Field(1000))
LigQ == AtomLine(TagHETATM, "L", Resid4(1), Field(-1000), Field(-1000), Field(-1000))
LigFar == AtomLine(TagATOM, "L", Resid4(1), Field(9999000), Field(2000), Field(3000))
LigHalf == AtomLine(TagATOM, "L", Resid4(1), Field(7000), BadField, Field(0))
LigBadX == AtomLine(TagATOM, "L", Resid4(1), BadField, Field(2000), Field(3000))
LigRoot == <<"R", "O", "O", "T", "\n">>

LigandLines == {LigP, LigQ, LigFar, LigHalf, LigBadX, LigRoot}
LigandFiles == UNION {[1..n -> LigandLines] : n \in 0..MaxLigLines}

NameA == <<"a", ".", "p", "d", "b", "q", "t">>
NameB == <<"b", ".", "p", "d", "b", "q", "t">>
NameC == <<"c", ".", "p", "d", "b", "q", "t">>
NameNotes == <<"n", "o", "t", "e", "s", ".", "t", "x", "t">>

PipeStart ==
    /\ ppc = "step1"
    /\ pexit = <<>>
    /\ files = EmptyDir
    /\ todo = {}
    /\ written = {}
    /\ center = NoCenter
    /\ launched = {}
    /\ output = {}
    /\ helpers_in_cwd \in BOOLEAN
    /\ bpc = "idle"
    /\ config = NoConfig
    /\ BoxStart
    /\ VinaIdle

\* one ligand file of every content up to MaxLigLines lines; the box is that
\* of residue A:1 of a receptor holding it
InitRecenter ==
    /\ PipeStart
    /\ receptor_path = PlainPath
    /\ receptor_exists = TRUE
    /\ receptor \in {<<RecA1>>, <<RecA1, RecA1b>>}
    /\ reslist = <<"A", ":", "1">>
    /\ padding = 5000
    /\ converted \in [{NameA} -> LigandFiles]

SpecRecenter == InitRecenter /\ [][NextPipe]_vars

\* a batch of three ligand files and one other entry in pdbqt_dir
BatchContents == {<<LigP, LigQ>>, <<LigQ>>, <<LigRoot>>, <<LigHalf>>}
BatchDirs ==
    {[name \in {NameA, NameB, NameC, NameNotes} |->
         IF name = NameNotes THEN <<LigRoot>> ELSE d[name]] :
     d \in [{NameA, NameB, NameC} -> BatchContents]}

InitBatch ==
    /\ PipeStart
    /\ receptor_path = PlainPath
    /\ receptor_exists \in BOOLEAN
    /\ receptor = IF receptor_exists THEN <<RecA1, RecB2>> ELSE <<>>
    /\ reslist \in {<<"A", ":", "1">>, <<"A", "-", "1", "2">>, <<"C", ":", "9">>}
    /\ padding = 5000
    /\ converted \in BatchDirs

SpecBatch == InitBatch /\ [][NextPipe]_vars

\* receptor paths: a plain one, one holding "=", two holding a keyword that
\* step 4 looks for
PathWithEquals == <<"a", "=", "b", ".", "p", "d", "b", "q", "t">>
PathWithKeyword == <<"c", "e", "n", "t", "e", "r", "_", "x", ".", "p", "d", "b", "q", "t">>
PathWithKeywordDir == <<"c", "e", "n", "t", "e", "r", "_", "z", "/", "r">>
ConfigPaths == {PlainPath, PathWithEquals, PathWithKeyword, PathWithKeywordDir}

\* the boxes of the residues A:1 and B:2 of receptors of up to MaxRecLines
\* atoms, among them atoms with negative and with half-thousandth centers
ConfigReceptors == UNION {[1..n -> {RecA1, RecA1b, RecB2}] : n \in 1..MaxRecLines}

InitConfig ==
    /\ PipeStart
    /\ receptor_path \in ConfigPaths
    /\ receptor_exists = TRUE
    /\ receptor \in ConfigReceptors
    /\ reslist \in {<<"A", ":", "1">>, <<" ", "A", ":", "1", " ", ",", "B", ":", "2">>}
    /\ padding \in Paddings
    /\ converted = [name \in {NameA} |-> <<LigP, LigQ>>]

SpecConfig == InitConfig /\ [][NextPipe]_vars

-----------------------------------------------------------------------------
(* Inputs of a stand-alone run of the batch script *)

NameUpperB == <<"B", ".", "p", "d", "b", "q", "t">>
VinaNames == {NameA, NameB, NameC, NameUpperB, NameNotes}

\* ligands directories of up to MaxEntries entries
VinaDirs ==
    UNION {[names -> {<<LigRoot>>}] :
              names \in {n \in SUBSET VinaNames : Cardinality(n) <= MaxEntries}}

InitVina ==
    /\ vpc = "check"
    /\ ligands_dir_exists \in BOOLEAN
    /\ files \in (IF ligands_dir_exists THEN VinaDirs ELSE {EmptyDir})
    /\ ligands = <<>>
    /\ vi = 0
    /\ completed = 0
    /\ vina_calls = <<>>
    /\ vexit = <<>>
    /\ vmsg = <<>>
    /\ receptor_path = PlainPath
    /\ receptor_exists \in BOOLEAN
    /\ receptor = IF receptor_exists THEN <<RecA1>> ELSE <<>>
    /\ config \in {NoConfig, StaleConfig}
    /\ bpc = "idle"
    /\ reslist = <<>>
    /\ padding = 0
    /\ BoxStart
    /\ ppc = "idle"
    /\ pexit = <<>>
    /\ todo = {}
    /\ written = {}
    /\ center = NoCenter
    /\ launched = {}
    /\ output = {}
    /\ converted = EmptyDir
    /\ helpers_in_cwd = FALSE

SpecVina == InitVina /\ [][NextVina]_vars

-----------------------------------------------------------------------------
(* Properties *)

\* a stripped, non-empty item of the residue list that is not Chain:Resid
MalformedItem(item) ==
    /\ item # <<>>
    /\ LET parts == Split(item, ":")
       IN  IF Len(parts) = 2 THEN ~PyInt(parts[2]).ok ELSE TRUE

ItemsOf(text) == Split(text, ",")
BadItems(text) == {i \in 1..Len(ItemsOf(text)) : MalformedItem(Strip(ItemsOf(text)[i]))}
GoodItems(text) ==
    {i \in 1..Len(ItemsOf(text)) :
        Strip(ItemsOf(text)[i]) # <<>> /\ ~MalformedItem(Strip(ItemsOf(text)[i]))}
PairOf(item) == <<Strip(Split(item, ":")[1]), PyInt(Split(item, ":")[2]).val>>
TargetKeys(text) == {PairOf(Strip(ItemsOf(text)[i])) : i \in GoodItems(text)}

\* the residue key of an ATOM/HETATM line: chain id at offset 21, residue
\* number at offsets [22,26)
HasKey(line) == IsAtomRecord(line) /\ Len(line) > 21 /\ PyInt(Slice(line, 22, 26)).ok
KeyOf(line) == <<Strip(<<line[22]>>), PyInt(Slice(line, 22, 26)).val>>

NoTargetAtom ==
    \A i \in 1..Len(receptor) :
        ~(HasKey(receptor[i]) /\ KeyOf(receptor[i]) \in TargetKeys(reslist))

FatalCondition ==
    \/ ~receptor_exists
    \/ BadItems(reslist) # {}
    \/ NoTargetAtom

\* C1: in a run of the box script that meets a fatal condition (receptor
\* missing, malformed residue specifier, no atom of the target residues in
\* the receptor) no step creates or modifies the config file or opens it for
\* writing, and the script ends with a nonzero exit status.
C1_FatalBeforeConfig ==
    [][FatalCondition =>
          /\ config' = config
          /\ ~config_opened'
          /\ (bpc' = "done" => bexit' # <<>> /\ bexit'[1] # 0)]_vars

C1_Witness ==
    /\ bpc = "done"
    /\ bexit = <<1>>
    /\ bmsg = <<"no_matching_residues", <<>> >>
    /\ receptor # <<>>
    /\ config = StaleConfig
    /\ ~config_opened

\* C3: once the box is computed, on each axis the center is the midpoint of
\* the smallest and largest selected value, the size is their distance plus
\* twice the padding and at least twice the padding; for a single selected
\* point the center is the point and the size is exactly twice the padding.
AxisBox(v, c, s) ==
    LET lo == CHOOSE m \in SeqRange(v) : \A e \in SeqRange(v) : m <= e
        hi == CHOOSE m \in SeqRange(v) : \A e \in SeqRange(v) : m >= e
    IN  /\ 2 * c.num = (lo + hi) * c.den
        /\ s = (hi - lo) + 2 * padding
        /\ s >= 2 * padding
        /\ Len(v) = 1 => (c.num = v[1] * c.den /\ s = 2 * padding)

C3_BoxFromMinMax ==
    box # <<>> =>
        /\ padding >= 0
        /\ AxisBox(xs, box[1].cx, box[1].sx)
        /\ AxisBox(ys, box[1].cy, box[1].sy)
        /\ AxisBox(zs, box[1].cz, box[1].sz)

C3_Witness ==
    /\ box # <<>>
    /\ padding = 5000
    /\ xs = <<1000, 4000>>
    /\ ys = <<2000, -2000>>
    /\ box[1].sy = 14000

\* C6: once parse_residue_list has run, if some item of the comma-separated
\* list lacks the ":" separator or has a residue number that is no integer,
\* the script has ended with exit status 1, its message names the first such
\* item (stripped of surrounding blanks) and no residue list was returned;
\* otherwise the returned list holds, in order, the (chain, number) pair of
\* every non-empty item.
C6_MalformedItemFatal ==
    bpc \notin {"idle", "check", "parse"} =>
        IF BadItems(reslist) # {}
        THEN /\ bpc = "done"
             /\ bexit = <<1>>
             /\ bmsg = <<"invalid_residue", Strip(ItemsOf(reslist)[SetMin(BadItems(reslist))])>>
             /\ residues = <<>>
             /\ ~config_opened
        ELSE /\ Len(residues) = Cardinality(GoodItems(reslist))
             /\ \A i \in GoodItems(reslist) :
                    residues[Cardinality({j \in GoodItems(reslist) : j <= i})]
                        = PairOf(Strip(ItemsOf(reslist)[i]))
             /\ (bmsg = <<>> \/ bmsg[1] # "invalid_residue")

C6_Witness ==
    /\ bpc = "done"
    /\ reslist = <<"A", "-", "1", "2">>
    /\ bmsg = <<"invalid_residue", <<"A", "-", "1", "2">> >>
    /\ bexit = <<1>>

\* C8: every step of the selection loop keeps a record iff its (chain id,
\* residue number) is in the target set: a line that is no ATOM/HETATM record
\* of a target residue leaves the three lists as they are, and a record of a
\* target residue whose coordinates parse is appended at the end of the three
\* lists, so the kept records stand in source order.
C8_MembershipFilter ==
    [][(bpc = "coords" /\ li' = li + 1) =>
          LET line == receptor[li + 1]
              selected == HasKey(line) /\ KeyOf(line) \in TargetKeys(reslist)
              x == PyFloat(Slice(line, 30, 38))
              y == PyFloat(Slice(line, 38, 46))
              z == PyFloat(Slice(line, 46, 54))
          IN  /\ ~selected => UNCHANGED <<xs, ys, zs>>
              /\ (selected /\ x.ok /\ y.ok /\ z.ok) =>
                     /\ xs' = Append(xs, x.val)
                     /\ ys' = Append(ys, y.val)
                     /\ zs' = Append(zs, z.val)]_vars

C8_Witness ==
    /\ bpc = "coords"
    /\ li = 2
    /\ receptor = <<RecB2, RecA1>>
    /\ residues = << <<<<"A">>, 1>> >>
    /\ xs = <<1000>>
    /\ ys = <<2000>>
    /\ zs = <<3000>>

\* C10: once the box script has failed, the pipeline is either still in
\* run_cmd of step 3 or has ended there with exit status 1 and the error of
\* that step; no ligand file was rewritten, and neither docking, the summary
\* nor the top-ligands step was started.
BoxFailed == bpc = "done" /\ bexit # <<0>>

C10_BoxFailureFatal ==
    BoxFailed =>
        /\ ppc \in {"step3wait", "done"}
        /\ ppc = "done" => (pexit = <<1>> /\ <<"error", "box">> \in output)
        /\ written = {}
        /\ files = converted
        /\ launched \cap {"docking", "summary", "top_ligands"} = {}
        /\ ~config_opened

C10_Witness ==
    /\ BoxFailed
    /\ bmsg = <<"no_matching_residues", <<>> >>
    /\ ppc = "done"
    /\ pexit = <<1>>
    /\ files # EmptyDir

\* an ATOM/HETATM line whose three coordinate fields all parse
ValidAtom(ln) ==
    /\ IsAtomRecord(ln)
    /\ PyFloat(Slice(ln, 30, 38)).ok
    /\ PyFloat(Slice(ln, 38, 46)).ok
    /\ PyFloat(Slice(ln, 46, 54)).ok

CoordX(ln) == PyFloat(Slice(ln, 30, 38)).val
CoordY(ln) == PyFloat(Slice(ln, 38, 46)).val
CoordZ(ln) == PyFloat(Slice(ln, 46, 54)).val

\* a coordinate field of 8 characters, right-justified, with 3 decimals
FieldShape(f) ==
    /\ Len(f) = 8
    /\ f[5] = "."
    /\ {f[4], f[6], f[7], f[8]} \subseteq Digits
    /\ PyFloat(f).ok

\* C2: every line of a rewritten ligand file has the length of its source
\* line and the same characters at offsets [0,30) and [54,end), and each of
\* the three coordinate fields of a translated atom line is 8 characters wide
\* with 3 decimals, right-justified.
C2_WidthPreserved ==
    \A f \in written :
        /\ Len(files[f]) = Len(converted[f])
        /\ \A i \in 1..Len(converted[f]) :
               LET a == converted[f][i]
                   b == files[f][i]
               IN  /\ Len(b) = Len(a)
                   /\ Slice(b, 0, 30) = Slice(a, 0, 30)
                   /\ SliceFrom(b, 54) = SliceFrom(a, 54)
                   /\ ValidAtom(a) =>
                          /\ FieldShape(Slice(b, 30, 38))
                          /\ FieldShape(Slice(b, 38, 46))
                          /\ FieldShape(Slice(b, 46, 54))

\* the sum of one coordinate over the atoms of a file whose three fields parse
RECURSIVE SumValid(_, _)
SumValid(lines, axis) ==
    IF lines = <<>> THEN 0
    ELSE (IF ~ValidAtom(Head(lines)) THEN 0
          ELSE IF axis = "x" THEN CoordX(Head(lines))
          ELSE IF axis = "y" THEN CoordY(Head(lines))
          ELSE CoordZ(Head(lines)))
         + SumValid(Tail(lines), axis)

\* C4: in a rewritten ligand file every atom whose three fields parse is
\* written with old + delta, where delta = target center - centroid0 and
\* centroid0 is the mean over exactly the atoms whose three fields parse.
C4_TranslatedByCentroid ==
    \A f \in written :
        LET src == converted[f]
            n == Cardinality({i \in 1..Len(src) : ValidAtom(src[i])})
        IN  \A i \in 1..Len(src) :
                ValidAtom(src[i]) =>
                    files[f][i] =
                        Slice(src[i], 0, 30)
                          \o FormatF3(n * (CoordX(src[i]) + center.x[1]) - SumValid(src, "x"), n, 8)
                          \o FormatF3(n * (CoordY(src[i]) + center.y[1]) - SumValid(src, "y"), n, 8)
                          \o FormatF3(n * (CoordZ(src[i]) + center.z[1]) - SumValid(src, "z"), n, 8)
                          \o SliceFrom(src[i], 54)

\* C5: a selected atom line with a coordinate field that does not parse is
\* skipped as a whole: the three lists of get_residue_coords have the same
\* length, which is the number of selected lines read so far whose three
\* fields parse, and the script is not aborted by the unparsable field.
C5_BadLineSkippedWhole ==
    /\ Len(xs) = Len(ys)
    /\ Len(ys) = Len(zs)
    /\ Len(xs) = Cardinality({i \in 1..li :
                                 /\ HasKey(receptor[i])
                                 /\ KeyOf(receptor[i]) \in TargetKeys(reslist)
                                 /\ ValidAtom(receptor[i])})
    /\ bmsg # <<"traceback", <<"ValueError">> >>

\* C7: the recentering loop is never aborted by a ligand file, and once it
\* has ended every ligand file without a valid atom is left as it was and is
\* reported, and every other ligand file has been translated and written.
LigandNames == {f \in DOMAIN converted : EndsWith(f, Suffix)}
NoValidAtom(lines) == \A i \in 1..Len(lines) : ~ValidAtom(lines[i])
RecenteringEnded == <<"recentered", "">> \in output

C7_BatchContinues ==
    /\ <<"traceback", "ZeroDivisionError">> \notin output
    /\ RecenteringEnded =>
           \A f \in LigandNames :
               IF NoValidAtom(converted[f])
               THEN /\ f \notin written
                    /\ files[f] = converted[f]
                    /\ \E m \in output : m[2] = f
               ELSE f \in written

\* C9: re-parsing a rewritten atom line at the fixed offsets gives the
\* translated coordinates old + delta to within half a thousandth, and the
\* chain id, residue number and record tag of the source line.
Near(field, old, d) ==
    /\ PyFloat(field).ok
    /\ LET diff == PyFloat(field).val * d.den - (old * d.den + d.num)
       IN  2 * (IF diff < 0 THEN -diff ELSE diff) <= d.den

C9_RoundTrip ==
    \A f \in written :
        LET src == converted[f]
            acc == centroid_lists(src, [xs |-> <<>>, ys |-> <<>>, zs |-> <<>>])
        IN  \A i \in 1..Len(src) :
                ValidAtom(src[i]) =>
                    LET a == src[i]
                        b == files[f][i]
                    IN  /\ Near(Slice(b, 30, 38), CoordX(a), axis_delta(center.x[1], acc.xs))
                        /\ Near(Slice(b, 38, 46), CoordY(a), axis_delta(center.y[1], acc.ys))
                        /\ Near(Slice(b, 46, 54), CoordZ(a), axis_delta(center.z[1], acc.zs))
                        /\ Slice(b, 21, 22) = Slice(a, 21, 22)
                        /\ Slice(b, 22, 26) = Slice(a, 22, 26)
                        /\ \A tag \in AtomTags : StartsWith(b, tag) <=> StartsWith(a, tag)

-----------------------------------------------------------------------------
\* the commands of steps 1 to 7, in the order of main
HelperOrder == <<"combine", "convert", "box", "docking", "summary", "top_ligands">>

\* C11: every helper script the pipeline launches after the change of the
\* working directory is addressed by an absolute path, so no step fails merely
\* because the working directory changed: the commands are launched in the
\* order of steps 1 to 7, and run_cmd reports an error for the box command or
\* for the docking command only when that helper script itself ran and ended
\* with a nonzero status.
C11_HelpersByAbsolutePath ==
    /\ \A i \in 1..Len(HelperOrder) :
           HelperOrder[i] \in launched
               => \A j \in 1..i : HelperOrder[j] \in launched
    /\ <<"error", "box">> \in output => bexit # <<>> /\ bexit[1] # 0
    /\ <<"error", "docking">> \in output => vexit # <<>> /\ vexit[1] # 0

\* v, in thousandths, is c = num/den rounded to 3 decimal places
RoundedTo3(v, c) ==
    /\ 2 * (v * c.den - c.num) <= c.den
    /\ 2 * (c.num - v * c.den) <= c.den

\* C12: once the box script has written the config and step 4 has read it,
\* reading did not fail, and the center that step 4 holds is, on each axis,
\* the center of the box at 3 decimal places - for every receptor path, also
\* one holding "center_x", "center_z" or "=".
C12_ConfigRoundTrip ==
    (<<"done", "box">> \in output /\ ppc # "step4") =>
        /\ <<"traceback", "config">> \notin output
        /\ center.x # <<>> /\ RoundedTo3(center.x[1], box[1].cx)
        /\ center.y # <<>> /\ RoundedTo3(center.y[1], box[1].cy)
        /\ center.z # <<>> /\ RoundedTo3(center.z[1], box[1].cz)

\* every ATOM/HETATM line of the file has three coordinate fields that parse
AllAtomsValid(lines) ==
    \A i \in 1..Len(lines) : IsAtomRecord(lines[i]) => ValidAtom(lines[i])

\* C13: for a ligand file whose atom lines all have valid coordinates, the
\* recentering of the rewritten file with the same center rewrites it once
\* more and leaves every line as it is.
C13_RecenterIdempotent ==
    \A f \in written :
        AllAtomsValid(converted[f]) =>
            /\ recenter(files[f], center).kind = "write"
            /\ recenter(files[f], center).out = files[f]

\* the docking calls made so far that succeeded
Successes == Cardinality({i \in 1..Len(vina_calls) : vina_calls[i].rc = 0})

====
